---------------------------- MODULE Spec2Model ----------------------------
(***************************************************************************)
(* A model of tavus.py: the session store (UserData), the three agent      *)
(* tools of AvatarAgent, and the two inbound RPC handlers registered by    *)
(* entrypoint.  Tasks run on one cooperative event loop: a task runs until *)
(* it returns, raises, or suspends in `await perform_rpc(...)`.            *)
(*                                                                         *)
(* Conventions.  Identifiers are the values of str(uuid.uuid4()); they are *)
(* modelled as the positive naturals 1, 2, 3, ... in the order of          *)
(* generation, and 0 stands for a well-formed, non-empty id string that no *)
(* uuid4 call returned.  A Python reference to an element of a list is the *)
(* element's 1-based position, and 0 is None.  An optional scalar is <<>>  *)
(* (None) or <<v>>.                                                        *)
(***************************************************************************)
EXTENDS Naturals, Sequences, FiniteSets, TLC

\* Operations (tool calls and inbound RPC invocations) started in one run.
MaxOps == 3

\* The event loop's live tasks: the agent's tool call and the inbound RPC
\* invocation in flight.
Tasks == {"tool", "rpc"}

\* Identities that may be connected to the room besides the agent.
Peers == {"client"}

\* Arguments the language model passes to create_flash_card.
CardInputs ==
  { [question |-> "What is kerning?",
     answer   |-> "The adjustment of space between individual letter pairs."] }

\* A question with two answer options as create_quiz and add_quiz take it: the
\* texts of the options and which of them are flagged correct (the store does
\* not validate that exactly one is).
Question(text, t1, c1, t2, c2) ==
  [text |-> text, answers |-> << [text |-> t1, is_correct |-> c1],
                                 [text |-> t2, is_correct |-> c2] >>]

\* The question lists the language model passes to create_quiz: none, two
\* questions with one correct option each, and the same two with no option of
\* the first flagged correct.
QuizInputs ==
  { << >>,
    << Question("Q1", "A1", TRUE,  "A2", FALSE), Question("Q2", "B1", FALSE, "B2", TRUE) >>,
    << Question("Q1", "A1", FALSE, "A2", FALSE), Question("Q2", "B1", FALSE, "B2", TRUE) >> }

VARIABLES
  flash_cards,    \* UserData.flash_cards
  quizzes,        \* UserData.quizzes
  nextId,         \* the next value uuid4() returns
  ctxSet,         \* userdata.ctx is set (the session was built by entrypoint)
  participants,   \* ctx.room.remote_participants, in the dict's iteration order
  task,           \* per task: the operation it runs, where it is, its locals
  sent,           \* the perform_rpc calls issued so far, in order
  said,           \* the texts handed to session.say so far, in order
  flipLog,        \* per UserData.flip_flash_card call that found its card: the
                  \* id and the is_flipped of the card returned
  nOps,           \* operations started so far
  call            \* the last direct call of a UserData method, its arguments
                  \* and what it returned (StoreSpec)

vars == << flash_cards, quizzes, nextId, ctxSet, participants, task, sent, said,
           flipLog, nOps, call >>

store == << flash_cards, quizzes >>

-----------------------------------------------------------------------------
(* Python values *)

None == <<>>

\* A truth test that only asks for a value other than None.
Truthy_not_none(v) == v # None

\* The truth value of an optional boolean: `if is_correct`.
Truthy(v) == v # None /\ v[1] = TRUE

Range(s) == { s[i] : i \in DOMAIN s }

\* A text argument that is no str but a value json.dumps has no encoding for
\* (bytes): the type hints of the tools are not enforced when they are called.
Bytes == "b'\\xff'"

-----------------------------------------------------------------------------
(* UserData *)

\* FlashCard(id=str(uuid.uuid4()), question=question, answer=answer), is_flipped
\* defaulting to False.
FlashCard(id, question, answer) ==
  [id |-> id, question |-> question, answer |-> answer, is_flipped |-> FALSE]

\* add_flash_card inserting at the front instead of appending.
add_flash_card_prepend(cards, id, question, answer) ==
  << FlashCard(id, question, answer) >> \o cards

\* add_flash_card giving every card the id generated once, when the class was
\* defined.
add_flash_card_same_id(cards, id, question, answer) ==
  Append(cards, FlashCard(1, question, answer))

\* add_flash_card storing the card over the last one, as an append to a list
\* read before another add does.
add_flash_card_lost(cards, id, question, answer) ==
  IF cards = << >>
  THEN << FlashCard(id, question, answer) >>
  ELSE [cards EXCEPT ![Len(cards)] = FlashCard(id, question, answer)]

\* UserData.add_flash_card: the list after the append; the card returned is
\* its last element.
add_flash_card(cards, id, question, answer) ==
  Append(cards, FlashCard(id, question, answer))

\* get_flash_card returning its loop variable, the last card, when no id
\* matches.
get_flash_card_last(cards, card_id) ==
  LET hits == { i \in DOMAIN cards : cards[i].id = card_id }
  IN  IF hits = {} THEN Len(cards) ELSE CHOOSE i \in hits : \A j \in hits : i <= j

\* UserData.get_flash_card: the first card with the id, or None.
get_flash_card(cards, card_id) ==
  LET hits == { i \in DOMAIN cards : cards[i].id = card_id }
  IN  IF hits = {} THEN 0 ELSE CHOOSE i \in hits : \A j \in hits : i <= j

\* flip_flash_card setting is_flipped instead of toggling it.
flip_flash_card_set(cards, card_id) ==
  LET c == get_flash_card(cards, card_id)
  IN  IF c # 0
      THEN [card |-> c, cards |-> [cards EXCEPT ![c].is_flipped = TRUE]]
      ELSE [card |-> 0, cards |-> cards]

\* UserData.flip_flash_card: the card found (or None) and the list after the
\* toggle.
flip_flash_card(cards, card_id) ==
  LET c == get_flash_card(cards, card_id)
  IN  IF c # 0
      THEN [card  |-> c,
            cards |-> [cards EXCEPT ![c].is_flipped = ~cards[c].is_flipped]]
      ELSE [card |-> 0, cards |-> cards]

\* The loops of UserData.add_quiz: every answer of a question takes an id, then
\* the question does.  `next` is the next value of uuid4().
RECURSIVE add_quiz_questions(_, _)
add_quiz_questions(questions, next) ==
  IF questions = << >>
  THEN [questions |-> << >>, next |-> next]
  ELSE LET q == Head(questions)
           n == Len(q.answers)
           answers == [j \in 1..n |->
                         [id |-> next + j - 1, text |-> q.answers[j].text,
                          is_correct |-> q.answers[j].is_correct]]
           question == [id |-> next + n, text |-> q.text, answers |-> answers]
           rest == add_quiz_questions(Tail(questions), next + n + 1)
       IN  [questions |-> << question >> \o rest.questions, next |-> rest.next]

\* UserData.add_quiz: the quiz built (it takes its id last), the list after the
\* append, and the next value of uuid4().
add_quiz(qzs, questions, next) ==
  LET built == add_quiz_questions(questions, next)
      quiz  == [id |-> built.next, questions |-> built.questions]
  IN  [quiz |-> quiz, quizzes |-> Append(qzs, quiz), next |-> built.next + 1]

\* get_quiz returning the first quiz whatever its id.
get_quiz_first(qzs, quiz_id) == IF qzs = << >> THEN 0 ELSE 1

\* UserData.get_quiz: the first quiz with the id, or None.
get_quiz(qzs, quiz_id) ==
  LET hits == { i \in DOMAIN qzs : qzs[i].id = quiz_id }
  IN  IF hits = {} THEN 0 ELSE CHOOSE i \in hits : \A j \in hits : i <= j

\* dict.get(key): the value, or None.
dict_get(d, key) == IF key \in DOMAIN d THEN << d[key] >> ELSE None

\* grade_question counting any selected option as correct.
grade_question_selected(questions, k, user_answer_id) ==
  LET question == questions[k]
      sel == { j \in DOMAIN question.answers : << question.answers[j].id >> = user_answer_id }
      cor == { j \in DOMAIN question.answers : question.answers[j].is_correct }
      last(S) == IF S = {} THEN 0 ELSE CHOOSE j \in S : \A m \in S : m <= j
  IN  [question |-> k, selected_answer |-> last(sel), correct_answer |-> last(cor),
       is_correct |-> IF last(sel) = 0 THEN None ELSE << TRUE >>]

\* The body of check_quiz_answers's loop for the k-th question: the last option
\* whose id is the chosen one, the last option flagged correct, and
\* `selected_answer and selected_answer.is_correct`.  The tuple refers to the
\* question and to the options by position.
grade_question(questions, k, user_answer_id) ==
  LET question == questions[k]
      sel == { j \in DOMAIN question.answers :
                 << question.answers[j].id >> = user_answer_id }
      cor == { j \in DOMAIN question.answers : question.answers[j].is_correct }
      last(S) == IF S = {} THEN 0 ELSE CHOOSE j \in S : \A m \in S : m <= j
      selected_answer == last(sel)
      correct_answer  == last(cor)
  IN  [question        |-> k,
       selected_answer |-> selected_answer,
       correct_answer  |-> correct_answer,
       is_correct      |-> IF selected_answer = 0
                           THEN None
                           ELSE << question.answers[selected_answer].is_correct >>]

\* UserData.check_quiz_answers: [] for an unknown quiz, else one tuple per
\* question in the stored order.
check_quiz_answers(qzs, quiz_id, user_answers) ==
  LET quiz == get_quiz(qzs, quiz_id)
  IN  IF quiz = 0
      THEN << >>
      ELSE [k \in DOMAIN qzs[quiz].questions |->
              grade_question(qzs[quiz].questions, k,
                             dict_get(user_answers, qzs[quiz].questions[k].id))]

\* check_quiz_answers taking the graded quiz out of the list.
quizzes_after_check_consumed(qzs, quiz_id, user_answers) ==
  SelectSeq(qzs, LAMBDA quiz : quiz.id # quiz_id)

\* self.quizzes after check_quiz_answers: the method reads the list through
\* get_quiz and the fields of the quiz, its questions and their answers, and
\* assigns to none of them.
quizzes_after_check(qzs, quiz_id, user_answers) == qzs

\* check_quiz_answers as handle_submit_quiz calls it, with whatever the payload
\* carried under "answers": `user_answers.get` raises AttributeError on the
\* first question when that value is no dict.  exc is None or the message.
call_check_quiz_answers(qzs, quiz_id, user_answers) ==
  LET quiz == get_quiz(qzs, quiz_id)
  IN  IF quiz # 0 /\ qzs[quiz].questions # << >> /\ user_answers.type # "dict"
      THEN [exc |-> << "'" \o user_answers.type \o "' object has no attribute 'get'" >>,
            value |-> << >>]
      ELSE [exc |-> None,
            value |-> check_quiz_answers(qzs, quiz_id, user_answers.items)]

-----------------------------------------------------------------------------
(* The room and the outbound notifications *)

\* next(iter(participants.values()), None)
first_participant(parts) == IF parts = << >> THEN None ELSE << Head(parts) >>

\* tool_destination addressing the client it remembers when the dict of remote
\* participants is empty.
tool_destination_stale(ctx, parts) ==
  IF ~ctx THEN [status |-> "couldn't access the room to send it.", participant |-> None]
  ELSE IF parts = << >> THEN [status |-> "ok", participant |-> << "client" >>]
  ELSE [status |-> "ok", participant |-> << Head(parts) >>]

\* The three guards every tool runs before it notifies: the room is there,
\* the dict of remote participants is not empty, its first value is not None.
\* "ok" carries the destination; the other outcomes name what was missing.
tool_destination(ctx, parts) ==
  IF ~ctx THEN [status |-> "couldn't access the room to send it.", participant |-> None]
  ELSE IF parts = << >>
  THEN [status |-> "no participants found to send it to.", participant |-> None]
  ELSE IF first_participant(parts) = None
  THEN [status |-> "couldn't get the first participant.", participant |-> None]
  ELSE [status |-> "ok", participant |-> first_participant(parts)]

\* flash_card_payload with the number of cards as index.
flash_card_payload_len(cards, card) ==
  [action |-> "show", id |-> cards[card].id, question |-> cards[card].question,
   answer |-> cards[card].answer, index |-> Len(cards)]

\* The "show" payload of a flash card (create_flash_card and handle_submit_quiz
\* build the same dict): `card` is the card's position in `cards`.
flash_card_payload(cards, card) ==
  [action |-> "show", id |-> cards[card].id, question |-> cards[card].question,
   answer |-> cards[card].answer, index |-> Len(cards) - 1]

\* flip_payload naming the first card of the list.
flip_payload_first(cards, card) == [action |-> "flip", id |-> cards[1].id]

\* The payload of the flip_flash_card tool.
flip_payload(cards, card) == [action |-> "flip", id |-> cards[card].id]

\* client_answer copying every field of the option.
client_answer_with_flag(a) == [id |-> a.id, text |-> a.text, is_correct |-> a.is_correct]

\* One answer option as create_quiz formats it for the client.
client_answer(a) == [id |-> a.id, text |-> a.text]

\* The "show" payload of a quiz: create_quiz's client_questions loop.
quiz_payload(quiz) ==
  [action |-> "show", id |-> quiz.id,
   questions |-> [k \in DOMAIN quiz.questions |->
                    [id |-> quiz.questions[k].id, text |-> quiz.questions[k].text,
                     answers |-> [j \in DOMAIN quiz.questions[k].answers |->
                                    client_answer(quiz.questions[k].answers[j])]]]]

\* The texts a payload dict carries besides the generated ids and the index.
payload_texts(payload) ==
  IF "questions" \in DOMAIN payload
  THEN UNION { { payload.questions[k].text }
                 \cup { payload.questions[k].answers[j].text :
                          j \in DOMAIN payload.questions[k].answers } :
               k \in DOMAIN payload.questions }
  ELSE IF "question" \in DOMAIN payload
  THEN { payload.question, payload.answer }
  ELSE { }

\* json.dumps: the JSON text, kept as the dict it denotes, or TypeError when a
\* value of the dict has no JSON encoding.
json_dumps(payload) ==
  IF Bytes \in payload_texts(payload)
  THEN [exc |-> << "Object of type bytes is not JSON serializable" >>, value |-> payload]
  ELSE [exc |-> None, value |-> payload]

\* rpc_call addressing a fixed identity.
rpc_call_fixed(participant, method, payload) ==
  [destination_identity |-> "client", method |-> method, payload |-> payload]

\* room.local_participant.perform_rpc(destination_identity=, method=, payload=)
rpc_call(participant, method, payload) ==
  [destination_identity |-> participant[1], method |-> method, payload |-> payload]

-----------------------------------------------------------------------------
(* Tasks *)

NoRet == [kind |-> "none", type |-> "-", text |-> ""]

ReturnStr(text) == [kind |-> "return", type |-> "str", text |-> text]

ReturnNone == [kind |-> "return", type |-> "NoneType", text |-> ""]

Raise(text) == [kind |-> "raise", type |-> "-", text |-> text]

\* A task that runs nothing.
IdleTask ==
  [op |-> "none", pc |-> "idle", arg |-> << >>, ret |-> NoRet,
   card |-> 0, quiz |-> 0, results |-> << >>, i |-> 0, added |-> << >>]

\* The locals of operation `op` as it starts with argument `arg`.
NewOp(op, arg) == [IdleTask EXCEPT !.op = op, !.arg = arg]

CanStart(t) == task[t].pc = "idle" /\ nOps < MaxOps

\* The tasks with the finished ones gone: what an operation returned or raised
\* is seen in the state its last step leads to, and its frame is dropped by the
\* next step of the loop.
Live == [u \in Tasks |-> IF task[u].pc = "idle" THEN IdleTask ELSE task[u]]

StoredCardIds == { flash_cards[i].id : i \in DOMAIN flash_cards }

StoredQuizIds == { quizzes[i].id : i \in DOMAIN quizzes }

\* 0: a well-formed id that no uuid4 call returned.
UnknownIds == {0}

NoCall == [method |-> "none", args |-> << >>, ret |-> << >>]

Init ==
  /\ flash_cards = << >>
  /\ quizzes = << >>
  /\ nextId = 1
  /\ ctxSet \in BOOLEAN
  /\ participants = << >>
  /\ task = [t \in Tasks |-> IdleTask]
  /\ sent = << >>
  /\ said = << >>
  /\ flipLog = << >>
  /\ nOps = 0
  /\ call = NoCall

\* A remote participant connects to the room.
PeerJoin(p) ==
  /\ ctxSet
  /\ p \notin Range(participants)
  /\ participants' = Append(participants, p)
  /\ task' = Live
  /\ UNCHANGED << flash_cards, quizzes, nextId, ctxSet, sent, said, flipLog, nOps, call >>

\* A remote participant disconnects.
PeerLeave(p) ==
  /\ p \in Range(participants)
  /\ participants' = SelectSeq(participants, LAMBDA x : x # p)
  /\ task' = Live
  /\ UNCHANGED << flash_cards, quizzes, nextId, ctxSet, sent, said, flipLog, nOps, call >>

\* AvatarAgent.create_flash_card up to its return or its await.
create_flash_card(t, in) ==
  /\ CanStart(t)
  /\ LET cards == add_flash_card(flash_cards, nextId, in.question, in.answer)
         card  == Len(cards)
         dest  == tool_destination(ctxSet, participants)
         json_payload == json_dumps(flash_card_payload(cards, card))
         loc   == [NewOp("create_flash_card", in) EXCEPT !.card = card]
     IN  /\ flash_cards' = cards
         /\ nextId' = nextId + 1
         /\ nOps' = nOps + 1
         /\ IF dest.status # "ok"
            THEN /\ task' = [Live EXCEPT ![t] =
                      [loc EXCEPT !.ret = ReturnStr("Created a flash card, but " \o dest.status)]]
                 /\ sent' = sent
            ELSE IF json_payload.exc # None
            THEN /\ task' = [Live EXCEPT ![t] = [loc EXCEPT !.ret = Raise(json_payload.exc[1])]]
                 /\ sent' = sent
            ELSE /\ task' = [Live EXCEPT ![t] = [loc EXCEPT !.pc = "rpc"]]
                 /\ sent' = Append(sent, rpc_call(dest.participant, "client.flashcard",
                                                  json_payload.value))
  /\ UNCHANGED << quizzes, ctxSet, participants, said, flipLog, call >>

\* AvatarAgent.flip_flash_card up to its return or its await.
flip_flash_card_tool(t, card_id) ==
  /\ CanStart(t)
  /\ LET f    == flip_flash_card(flash_cards, card_id)
         dest == tool_destination(ctxSet, participants)
         json_payload == json_dumps(flip_payload(f.cards, f.card))
         loc  == [NewOp("flip_flash_card", card_id) EXCEPT !.card = f.card]
     IN  /\ flash_cards' = f.cards
         /\ flipLog' = IF f.card = 0 THEN flipLog
                       ELSE Append(flipLog, [id |-> card_id,
                                             is_flipped |-> f.cards[f.card].is_flipped])
         /\ nOps' = nOps + 1
         /\ IF f.card = 0
            THEN /\ task' = [Live EXCEPT ![t] =
                      [loc EXCEPT !.ret = ReturnStr("Flash card with ID {card_id} not found.")]]
                 /\ sent' = sent
            ELSE IF dest.status # "ok"
            THEN /\ task' = [Live EXCEPT ![t] =
                      [loc EXCEPT !.ret = ReturnStr("Flipped the flash card, but " \o dest.status)]]
                 /\ sent' = sent
            ELSE IF json_payload.exc # None
            THEN /\ task' = [Live EXCEPT ![t] = [loc EXCEPT !.ret = Raise(json_payload.exc[1])]]
                 /\ sent' = sent
            ELSE /\ task' = [Live EXCEPT ![t] = [loc EXCEPT !.pc = "rpc"]]
                 /\ sent' = Append(sent, rpc_call(dest.participant, "client.flashcard",
                                                  json_payload.value))
  /\ UNCHANGED << quizzes, nextId, ctxSet, participants, said, call >>

\* AvatarAgent.create_quiz up to its return or its await.
create_quiz(t, questions) ==
  /\ CanStart(t)
  /\ LET q    == add_quiz(quizzes, questions, nextId)
         dest == tool_destination(ctxSet, participants)
         json_payload == json_dumps(quiz_payload(q.quiz))
         loc  == [NewOp("create_quiz", questions) EXCEPT !.quiz = Len(q.quizzes)]
     IN  /\ quizzes' = q.quizzes
         /\ nextId' = q.next
         /\ nOps' = nOps + 1
         /\ IF dest.status # "ok"
            THEN /\ task' = [Live EXCEPT ![t] =
                      [loc EXCEPT !.ret = ReturnStr("Created a quiz, but " \o dest.status)]]
                 /\ sent' = sent
            ELSE IF json_payload.exc # None
            THEN /\ task' = [Live EXCEPT ![t] = [loc EXCEPT !.ret = Raise(json_payload.exc[1])]]
                 /\ sent' = sent
            ELSE /\ task' = [Live EXCEPT ![t] = [loc EXCEPT !.pc = "rpc"]]
                 /\ sent' = Append(sent, rpc_call(dest.participant, "client.quiz",
                                                  json_payload.value))
  /\ UNCHANGED << flash_cards, ctxSet, participants, said, flipLog, call >>

-----------------------------------------------------------------------------
(* Inbound payloads.  rpc_data.payload is a JSON text: it is kept as whether  *)
(* it is well formed and the value it denotes, a dict ([type |-> "dict",      *)
(* items |-> the key-value function]) or another JSON value.                  *)

Dict(items) == [type |-> "dict", items |-> items]

NonDict == [type |-> "list", items |-> << >>]

Malformed == [wellformed |-> FALSE, value |-> NonDict]

Json(value) == [wellformed |-> TRUE, value |-> value]

\* json.loads: the value, or JSONDecodeError.
json_loads(payload) ==
  IF payload.wellformed
  THEN [exc |-> None, value |-> payload.value]
  ELSE [exc |-> << "Expecting value: line 1 column 1 (char 0)" >>, value |-> NonDict]

\* payload_data.get(key), which raises AttributeError when the decoded value is
\* no dict.
payload_get(value, key) ==
  IF value.type = "dict"
  THEN [exc |-> None, value |-> dict_get(value.items, key)]
  ELSE [exc |-> << "'" \o value.type \o "' object has no attribute 'get'" >>,
        value |-> None]

\* What a client may send to agent.flipFlashCard.
FlipPayloads ==
  { Malformed, Json(NonDict), Json(Dict(<< >>)) }
    \cup { Json(Dict([id |-> x])) : x \in StoredCardIds \cup UnknownIds }

\* The answer mappings a client may send for a quiz: an option of its own for
\* every question, or no answer at all.
AnswerMaps(quiz) ==
  LET qs   == quiz.questions
      qids == { qs[k].id : k \in DOMAIN qs }
      pos(qid) == CHOOSE k \in DOMAIN qs : qs[k].id = qid
      full == { m \in [qids -> UNION { { qs[k].answers[j].id : j \in DOMAIN qs[k].answers } :
                                       k \in DOMAIN qs }] :
                  \A qid \in qids :
                    m[qid] \in { qs[pos(qid)].answers[j].id : j \in DOMAIN qs[pos(qid)].answers } }
  IN  full \cup { << >> }

\* What a client may send to agent.submitQuiz.
SubmitPayloads ==
  { Malformed, Json(NonDict), Json(Dict(<< >>)) }
    \cup { Json(Dict([id |-> x])) : x \in UnknownIds }
    \cup { Json(Dict([id |-> x, answers |-> NonDict])) : x \in StoredQuizIds }
    \cup UNION { { Json(Dict([id |-> quizzes[q].id, answers |-> Dict(m)])) :
                   m \in AnswerMaps(quizzes[q]) } : q \in DOMAIN quizzes }

-----------------------------------------------------------------------------
(* Inbound handlers *)

\* flip_handler with only its `except json.JSONDecodeError`: the AttributeError
\* of `.get` on a non-dict propagates.
flip_handler_uncaught(cards, payload) ==
  LET parsed  == json_loads(payload)
      card_id == payload_get(parsed.value, "id")
      same    == [cards |-> cards, card |-> 0]
  IN  IF parsed.exc # None
      THEN same @@ [ret |-> ReturnStr("error: " \o parsed.exc[1])]
      ELSE IF card_id.exc # None
      THEN same @@ [ret |-> Raise(card_id.exc[1])]
      ELSE IF card_id.value = None
      THEN same @@ [ret |-> ReturnNone]
      ELSE flip_flash_card(cards, card_id.value[1]) @@ [ret |-> ReturnNone]

\* flip_handler flipping the card a second time where it reads is_flipped.
flip_handler_twice(cards, payload) ==
  LET parsed  == json_loads(payload)
      card_id == payload_get(parsed.value, "id")
      same    == [cards |-> cards, card |-> 0]
      once    == flip_flash_card(cards, card_id.value[1])
  IN  IF parsed.exc # None
      THEN same @@ [ret |-> ReturnStr("error: " \o parsed.exc[1])]
      ELSE IF card_id.exc # None
      THEN same @@ [ret |-> ReturnStr("error: " \o card_id.exc[1])]
      ELSE IF card_id.value = None
      THEN same @@ [ret |-> ReturnNone]
      ELSE flip_flash_card(once.cards, card_id.value[1]) @@ [ret |-> ReturnNone]

\* The body of handle_flip_flash_card: the card list after it, the card it
\* flipped (or None) and what it returns.
flip_handler(cards, payload) ==
  LET parsed  == json_loads(payload)
      card_id == payload_get(parsed.value, "id")
      same    == [cards |-> cards, card |-> 0]
  IN  IF parsed.exc # None
      THEN same @@ [ret |-> ReturnStr("error: " \o parsed.exc[1])]
      ELSE IF card_id.exc # None
      THEN same @@ [ret |-> ReturnStr("error: " \o card_id.exc[1])]
      ELSE IF card_id.value = None
      THEN same @@ [ret |-> ReturnNone]
      ELSE flip_flash_card(cards, card_id.value[1]) @@ [ret |-> ReturnNone]

handle_flip_flash_card(t, payload) ==
  /\ CanStart(t)
  /\ ctxSet
  /\ LET h   == flip_handler(flash_cards, payload)
         loc == [NewOp("handle_flip_flash_card", payload) EXCEPT !.card = h.card, !.ret = h.ret]
     IN  /\ flash_cards' = h.cards
         /\ flipLog' = IF h.card = 0 THEN flipLog
                       ELSE Append(flipLog, [id |-> h.cards[h.card].id,
                                             is_flipped |-> h.cards[h.card].is_flipped])
         /\ task' = [Live EXCEPT ![t] = loc]
         /\ nOps' = nOps + 1
  /\ UNCHANGED << quizzes, nextId, ctxSet, participants, sent, said, call >>

\* submit_prologue without its `if not quiz_id` check.
submit_prologue_unchecked_id(qzs, payload) ==
  LET parsed  == json_loads(payload)
      quiz_id == payload_get(parsed.value, "id")
      answers == payload_get(parsed.value, "answers")
      user_answers == IF answers.value = None THEN Dict(<< >>) ELSE answers.value[1]
      graded  == IF quiz_id.value = None
                 THEN [exc |-> None, value |-> << >>]
                 ELSE call_check_quiz_answers(qzs, quiz_id.value[1], user_answers)
      early(r) == [ret |-> r, quiz |-> 0, results |-> << >>]
  IN  IF parsed.exc # None THEN early(ReturnStr("error: " \o parsed.exc[1]))
      ELSE IF quiz_id.exc # None THEN early(ReturnStr("error: " \o quiz_id.exc[1]))
      ELSE IF graded.exc # None THEN early(ReturnStr("error: " \o graded.exc[1]))
      ELSE IF graded.value = << >> THEN early(ReturnStr("error: Quiz not found"))
      ELSE [ret |-> NoRet, quiz |-> get_quiz(qzs, quiz_id.value[1]), results |-> graded.value]

\* handle_submit_quiz from its start to the for loop: an early return, or the
\* graded results.
submit_prologue(qzs, payload) ==
  LET parsed  == json_loads(payload)
      quiz_id == payload_get(parsed.value, "id")
      answers == payload_get(parsed.value, "answers")
      user_answers == IF answers.value = None THEN Dict(<< >>) ELSE answers.value[1]
      graded  == call_check_quiz_answers(qzs, quiz_id.value[1], user_answers)
      early(r) == [ret |-> r, quiz |-> 0, results |-> << >>]
  IN  IF parsed.exc # None THEN early(ReturnStr("error: " \o parsed.exc[1]))
      ELSE IF quiz_id.exc # None THEN early(ReturnStr("error: " \o quiz_id.exc[1]))
      ELSE IF quiz_id.value = None THEN early(ReturnStr("error: No quiz ID found in payload"))
      ELSE IF graded.exc # None THEN early(ReturnStr("error: " \o graded.exc[1]))
      ELSE IF graded.value = << >> THEN early(ReturnStr("error: Quiz not found"))
      ELSE [ret |-> NoRet, quiz |-> get_quiz(qzs, quiz_id.value[1]), results |-> graded.value]

\* correct_count counting every result.
correct_count_all(results) == Len(results)

\* sum(1 for _, _, _, is_correct in quiz_results if is_correct)
correct_count(results) == Cardinality({ k \in DOMAIN results : Truthy(results[k].is_correct) })

\* The for loop of handle_submit_quiz from question s.i until it suspends in
\* perform_rpc (pc "rpc", at question s.i), raises (pc "raised") or ends
\* (pc "say").  `questions` are the graded quiz's and `parts` the room's remote
\* participants.
RECURSIVE submit_loop(_, _, _, _)
submit_loop(questions, results, parts, s) ==
  IF s.i > Len(results)
  THEN [s EXCEPT !.pc = "say"]
  ELSE LET r == results[s.i]
       IN  IF Truthy(r.is_correct)
           THEN submit_loop(questions, results, parts, [s EXCEPT !.i = @ + 1])
           ELSE IF r.correct_answer = 0
           THEN [s EXCEPT !.pc = "raised",
                          !.exc = "'NoneType' object has no attribute 'text'"]
           ELSE LET question == questions[r.question]
                    cards == add_flash_card(s.flash_cards, s.nextId, question.text,
                                            question.answers[r.correct_answer].text)
                    participant == first_participant(parts)
                    json_flash_payload == json_dumps(flash_card_payload(cards, Len(cards)))
                    s1 == [s EXCEPT !.flash_cards = cards, !.nextId = @ + 1,
                                    !.added = Append(@, s.nextId)]
                IN  IF participant # None /\ json_flash_payload.exc # None
                    THEN [s1 EXCEPT !.pc = "raised", !.exc = json_flash_payload.exc[1]]
                    ELSE IF participant # None
                    THEN [s1 EXCEPT !.pc = "rpc",
                                    !.sent = Append(@, rpc_call(participant, "client.flashcard",
                                                                json_flash_payload.value))]
                    ELSE submit_loop(questions, results, parts, [s1 EXCEPT !.i = @ + 1])

\* The state after handle_submit_quiz, as task t, has run its loop from
\* question i on, and its session.say and return when the loop ended.
SubmitContinue(t, loc, i) ==
  LET s == submit_loop(quizzes[loc.quiz].questions, loc.results, participants,
                       [flash_cards |-> flash_cards, nextId |-> nextId, sent |-> sent,
                        added |-> loc.added, i |-> i, pc |-> "run", exc |-> ""])
      loc1 == [loc EXCEPT !.i = s.i, !.added = s.added]
  IN  /\ flash_cards' = s.flash_cards
      /\ nextId' = s.nextId
      /\ sent' = s.sent
      /\ said' = IF s.pc = "say"
                 THEN Append(said, [correct_count |-> correct_count(loc.results),
                                    total_count |-> Len(loc.results), calls |-> Len(s.sent)])
                 ELSE said
      /\ task' = [Live EXCEPT ![t] =
           IF s.pc = "rpc" THEN [loc1 EXCEPT !.pc = "rpc"]
           ELSE IF s.pc = "raised" THEN [loc1 EXCEPT !.pc = "idle", !.ret = ReturnStr("error: " \o s.exc)]
           ELSE [loc1 EXCEPT !.pc = "idle", !.ret = ReturnStr("success")]]

handle_submit_quiz(t, payload) ==
  /\ CanStart(t)
  /\ ctxSet
  /\ LET pro == submit_prologue(quizzes, payload)
         loc == [NewOp("handle_submit_quiz", payload) EXCEPT !.quiz = pro.quiz,
                                                            !.results = pro.results]
     IN  IF pro.ret # NoRet
         THEN /\ task' = [Live EXCEPT ![t] = [loc EXCEPT !.ret = pro.ret]]
              /\ UNCHANGED << flash_cards, nextId, sent, said >>
         ELSE SubmitContinue(t, loc, 1)
  /\ nOps' = nOps + 1
  /\ UNCHANGED << quizzes, ctxSet, participants, flipLog, call >>

-----------------------------------------------------------------------------
(* perform_rpc completes *)

\* What a tool returns once its perform_rpc has returned.
tool_return(loc, cards) ==
  IF loc.op = "create_flash_card"
  THEN ReturnStr("I've created a flash card with the question: '" \o loc.arg.question \o "'")
  ELSE IF loc.op = "flip_flash_card"
  THEN ReturnStr("I've flipped the flash card to show the "
                 \o (IF cards[loc.card].is_flipped THEN "answer" ELSE "question"))
  ELSE ReturnStr("I've created a quiz with {len(questions)} questions. Please answer them when you're ready.")

\* The awaited call of task t returns the peer's response.
RpcReturn(t) ==
  /\ task[t].pc = "rpc"
  /\ IF task[t].op = "handle_submit_quiz"
     THEN SubmitContinue(t, task[t], task[t].i + 1)
     ELSE /\ task' = [Live EXCEPT ![t] = [@ EXCEPT !.pc = "idle",
                                                    !.ret = tool_return(task[t], flash_cards)]]
          /\ UNCHANGED << flash_cards, nextId, sent, said >>
  /\ UNCHANGED << quizzes, ctxSet, participants, flipLog, nOps, call >>

\* RpcRaise with the submission undone: the handler's `except` takes the flash
\* cards the invocation appended out of the store again.
RpcRaise_rollback(t) ==
  /\ task[t].pc = "rpc"
  /\ task' = [Live EXCEPT ![t] = [@ EXCEPT !.pc = "idle",
                !.ret = IF task[t].op = "handle_submit_quiz"
                        THEN ReturnStr("error: RpcError")
                        ELSE Raise("RpcError")]]
  /\ flash_cards' = IF task[t].op = "handle_submit_quiz"
                    THEN SelectSeq(flash_cards, LAMBDA c : c.id \notin Range(task[t].added))
                    ELSE flash_cards
  /\ UNCHANGED << quizzes, nextId, ctxSet, participants, sent, said, flipLog, nOps, call >>

\* The awaited call of task t raises RpcError (the peer left, timed out, has no
\* such method, or its handler failed).  A tool lets it propagate; the handler
\* catches it at its outer `except Exception`.
RpcRaise(t) ==
  /\ task[t].pc = "rpc"
  /\ task' = [Live EXCEPT ![t] = [@ EXCEPT !.pc = "idle",
                !.ret = IF task[t].op = "handle_submit_quiz"
                        THEN ReturnStr("error: RpcError")
                        ELSE Raise("RpcError")]]
  /\ UNCHANGED << flash_cards, quizzes, nextId, ctxSet, participants, sent, said, flipLog, nOps, call >>

Next ==
  \/ \E p \in Peers : PeerJoin(p)
  \/ \E p \in Peers : PeerLeave(p)
  \/ \E in \in CardInputs : create_flash_card("tool", in)
  \/ \E id \in StoredCardIds \cup UnknownIds : flip_flash_card_tool("tool", id)
  \/ \E qs \in QuizInputs : create_quiz("tool", qs)
  \/ \E payload \in FlipPayloads : handle_flip_flash_card("rpc", payload)
  \/ \E payload \in SubmitPayloads : handle_submit_quiz("rpc", payload)
  \/ \E t \in Tasks : RpcReturn(t)
  \/ \E t \in Tasks : RpcRaise(t)

Spec == Init /\ [][Next]_vars

-----------------------------------------------------------------------------
(* UserData on its own: its methods called directly, one after the other, on  *)
(* a UserData() built with no context.                                        *)

\* Direct calls of UserData methods in one run.
MaxCalls == 4

\* The question lists passed to add_quiz.
StoreQuizInputs == QuizInputs \cup { << Question("Q1", "A1", TRUE, "A2", TRUE) >> }

\* The answer mappings passed to check_quiz_answers for a stored quiz: per
\* question nothing, the id of one of its options, or an id of no option.
StoreAnswerMaps(quiz) ==
  LET qs == quiz.questions
      choices(k) == {None} \cup { << qs[k].answers[j].id >> : j \in DOMAIN qs[k].answers }
                           \cup { << x >> : x \in UnknownIds }
      picks == { f \in [DOMAIN qs -> UNION { choices(k) : k \in DOMAIN qs }] :
                   \A k \in DOMAIN qs : f[k] \in choices(k) }
      pos(qid) == CHOOSE k \in DOMAIN qs : qs[k].id = qid
  IN  { [qid \in { qs[k].id : k \in { n \in DOMAIN qs : f[n] # None } } |-> f[pos(qid)][1]] :
        f \in picks }

StoreInit ==
  /\ Init
  /\ ctxSet = FALSE

StoreAddFlashCard(in) ==
  /\ nOps < MaxCalls
  /\ flash_cards' = add_flash_card(flash_cards, nextId, in.question, in.answer)
  /\ nextId' = nextId + 1
  /\ call' = [method |-> "add_flash_card", args |-> in, ret |-> Len(flash_cards')]
  /\ nOps' = nOps + 1
  /\ UNCHANGED << quizzes, ctxSet, participants, task, sent, said, flipLog >>

StoreFlipFlashCard(card_id) ==
  /\ nOps < MaxCalls
  /\ LET f == flip_flash_card(flash_cards, card_id)
     IN  /\ flash_cards' = f.cards
         /\ flipLog' = IF f.card = 0 THEN flipLog
                       ELSE Append(flipLog, [id |-> card_id,
                                             is_flipped |-> f.cards[f.card].is_flipped])
         /\ call' = [method |-> "flip_flash_card", args |-> card_id, ret |-> f.card]
  /\ nOps' = nOps + 1
  /\ UNCHANGED << quizzes, nextId, ctxSet, participants, task, sent, said >>

StoreAddQuiz(questions) ==
  /\ nOps < MaxCalls
  /\ LET q == add_quiz(quizzes, questions, nextId)
     IN  /\ quizzes' = q.quizzes
         /\ nextId' = q.next
         /\ call' = [method |-> "add_quiz", args |-> questions, ret |-> Len(q.quizzes)]
  /\ nOps' = nOps + 1
  /\ UNCHANGED << flash_cards, ctxSet, participants, task, sent, said, flipLog >>

StoreCheckQuizAnswers(quiz_id, user_answers) ==
  /\ nOps < MaxCalls
  /\ call' = [method |-> "check_quiz_answers",
              args |-> [quiz_id |-> quiz_id, user_answers |-> user_answers],
              ret |-> check_quiz_answers(quizzes, quiz_id, user_answers)]
  /\ quizzes' = quizzes_after_check(quizzes, quiz_id, user_answers)
  /\ nOps' = nOps + 1
  /\ UNCHANGED << flash_cards, nextId, ctxSet, participants, task, sent, said, flipLog >>

StoreNext ==
  \/ \E in \in CardInputs : StoreAddFlashCard(in)
  \/ \E id \in StoredCardIds \cup UnknownIds : StoreFlipFlashCard(id)
  \/ \E qs \in StoreQuizInputs : StoreAddQuiz(qs)
  \/ \E q \in DOMAIN quizzes : \E m \in StoreAnswerMaps(quizzes[q]) :
       StoreCheckQuizAnswers(quizzes[q].id, m)
  \/ \E x \in UnknownIds : \E q \in DOMAIN quizzes :
       \E m \in StoreAnswerMaps(quizzes[q]) \cup { << >> } : StoreCheckQuizAnswers(x, m)

StoreSpec == StoreInit /\ [][StoreNext]_vars

-----------------------------------------------------------------------------
(* The agent's tools on their own, called with arguments of any type: the     *)
(* tools run one at a time, remote participants come and go.                  *)

\* Arguments passed to create_flash_card: two texts, or a text and bytes.
ToolCardInputs ==
  CardInputs \cup { [question |-> "What is kerning?", answer |-> Bytes] }

\* The question lists passed to create_quiz: one question whose options are
\* texts, or a text and bytes.
ToolQuizInputs ==
  { << Question("Q1", "A1", TRUE, "A2", FALSE) >>,
    << Question("Q1", "A1", TRUE, Bytes, FALSE) >> }

ToolNext ==
  \/ \E p \in Peers : PeerJoin(p)
  \/ \E p \in Peers : PeerLeave(p)
  \/ \E in \in ToolCardInputs : create_flash_card("tool", in)
  \/ \E id \in StoredCardIds \cup UnknownIds : flip_flash_card_tool("tool", id)
  \/ \E qs \in ToolQuizInputs : create_quiz("tool", qs)
  \/ RpcReturn("tool")
  \/ RpcRaise("tool")

ToolSpec == Init /\ [][ToolNext]_vars

-----------------------------------------------------------------------------
(* A room with two remote participants: the tools and quiz submissions notify *)
(* while the participants come and go in either order.                        *)

\* Tool calls and submissions started in one run of the two-participant room.
MaxRoomOps == 2

RoomPeers == {"client", "observer"}

\* The question list passed to create_quiz.
RoomQuizInputs ==
  { << Question("Q1", "A1", TRUE, "A2", FALSE), Question("Q2", "B1", FALSE, "B2", TRUE) >> }

\* The submissions a client may send for the stored quizzes.
RoomSubmitPayloads ==
  UNION { { Json(Dict([id |-> quizzes[q].id, answers |-> Dict(m)])) :
            m \in AnswerMaps(quizzes[q]) } : q \in DOMAIN quizzes }

RoomInit ==
  /\ Init
  /\ ctxSet = TRUE

RoomNext ==
  \/ \E p \in RoomPeers : PeerJoin(p)
  \/ \E p \in RoomPeers : PeerLeave(p)
  \/ \E in \in CardInputs : nOps < MaxRoomOps /\ create_flash_card("tool", in)
  \/ \E id \in StoredCardIds \cup UnknownIds :
       nOps < MaxRoomOps /\ flip_flash_card_tool("tool", id)
  \/ \E qs \in RoomQuizInputs : nOps < MaxRoomOps /\ create_quiz("tool", qs)
  \/ \E payload \in RoomSubmitPayloads :
       nOps < MaxRoomOps /\ handle_submit_quiz("rpc", payload)
  \/ \E t \in Tasks : RpcReturn(t)
  \/ \E t \in Tasks : RpcRaise(t)

RoomSpec == RoomInit /\ [][RoomNext]_vars

-----------------------------------------------------------------------------
(* Properties *)

\* The handler frames: task t runs, or has just finished, operation op.
Runs(t, op) == task[t].op = op

Finished(t, op) == task[t].op = op /\ task[t].pc = "idle"

\* The answers mapping of a submission payload that was graded.
SubmittedAnswers(payload) ==
  IF "answers" \in DOMAIN payload.value.items
  THEN payload.value.items.answers.items
  ELSE << >>

\* Question k of `quiz` is answered correctly by mapping m: some option of the
\* question has the id m gives for the question and is flagged correct.
AnsweredCorrectly(quiz, k, m) ==
  \E j \in DOMAIN quiz.questions[k].answers :
     /\ dict_get(m, quiz.questions[k].id) = << quiz.questions[k].answers[j].id >>
     /\ quiz.questions[k].answers[j].is_correct

\* The positions of the questions of `quiz` that m answers incorrectly, in
\* question order.
IncorrectQuestions(quiz, m) ==
  SelectSeq([k \in DOMAIN quiz.questions |-> k], LAMBDA k : ~AnsweredCorrectly(quiz, k, m))

\* C1: no step of any operation (the tools, the inbound handlers, the awaited
\* calls completing) removes or reorders a stored record: both sequences keep
\* their length or grow, and every flash card and quiz stored before the step
\* is at the same position after it, with the same id and texts.
C1_SequencesOnlyGrow ==
  [][ /\ Len(flash_cards') >= Len(flash_cards)
      /\ \A i \in DOMAIN flash_cards :
            /\ flash_cards'[i].id = flash_cards[i].id
            /\ flash_cards'[i].question = flash_cards[i].question
            /\ flash_cards'[i].answer = flash_cards[i].answer
      /\ Len(quizzes') >= Len(quizzes)
      /\ \A i \in DOMAIN quizzes : quizzes'[i] = quizzes[i] ]_vars

\* C1 witness: a store holding two flash cards and a quiz after a flip.
C1_Witness ==
  /\ Len(flash_cards) >= 2
  /\ Len(quizzes) >= 1
  /\ flipLog # << >>

\* The cards a submission has appended are cards for its first incorrect
\* questions, one each and in question order, with the question's text as
\* question and the text of a flagged-correct option of it as answer.
AddedForIncorrect(loc) ==
  LET quiz  == quizzes[loc.quiz]
      wrong == IncorrectQuestions(quiz, SubmittedAnswers(loc.arg))
  IN  /\ Len(loc.added) <= Len(wrong)
      /\ \A n, m \in DOMAIN loc.added : n # m => loc.added[n] # loc.added[m]
      /\ \A n \in DOMAIN loc.added :
            \E c \in DOMAIN flash_cards :
               /\ flash_cards[c].id = loc.added[n]
               /\ flash_cards[c].question = quiz.questions[wrong[n]].text
               /\ \E j \in DOMAIN quiz.questions[wrong[n]].answers :
                     /\ quiz.questions[wrong[n]].answers[j].is_correct
                     /\ flash_cards[c].answer = quiz.questions[wrong[n]].answers[j].text

\* The submission has appended a card for every incorrect question.
AddedForAllIncorrect(loc) ==
  Len(loc.added) = Len(IncorrectQuestions(quizzes[loc.quiz], SubmittedAnswers(loc.arg)))

\* C2 (amended): a submission for a stored quiz that handle_submit_quiz
\* answers with "success" has appended exactly one flash card for every
\* question graded incorrect and none for a question graded correct, each with
\* the question's text and the text of its correct option; while it runs, and
\* when it ends with an "error: ..." result, it has appended such cards for the
\* first incorrect questions only, those it reached before it failed.
C2_CardsForIncorrect ==
  \A t \in Tasks :
     (Runs(t, "handle_submit_quiz") /\ task[t].results # << >>) =>
        /\ AddedForIncorrect(task[t])
        /\ task[t].ret = ReturnStr("success") => AddedForAllIncorrect(task[t])

\* C2 witness: a submission with one wrong answer out of two has ended with
\* "success" and one new card.
C2_Witness ==
  \E t \in Tasks :
     /\ Finished(t, "handle_submit_quiz")
     /\ task[t].ret = ReturnStr("success")
     /\ Len(task[t].results) = 2
     /\ Len(task[t].added) = 1

\* Every question of the quiz has an option flagged correct.
HasCorrectOptions(quiz) ==
  \A k \in DOMAIN quiz.questions :
     \E j \in DOMAIN quiz.questions[k].answers : quiz.questions[k].answers[j].is_correct

\* C2 as stated, and only for quizzes whose every question has a correct
\* option: a submission that was graded for a stored quiz has, when the handler
\* ends, one new flash card for every question graded incorrect.
C2_Original ==
  \A t \in Tasks :
     (/\ Finished(t, "handle_submit_quiz")
      /\ task[t].results # << >>
      /\ HasCorrectOptions(quizzes[task[t].quiz])) =>
        /\ AddedForIncorrect(task[t])
        /\ AddedForAllIncorrect(task[t])

\* The payload does not decode to an object: malformed JSON, or JSON that is
\* no dict.
NotAnObject(payload) == ~payload.wellformed \/ payload.value.type # "dict"

DecodeErrors ==
  { "error: Expecting value: line 1 column 1 (char 0)",
    "error: 'list' object has no attribute 'get'" }

\* C3 (amended): whatever the payload and whatever the outbound calls do,
\* neither inbound handler lets an exception propagate: each ends by returning.
\* handle_submit_quiz returns a string in every case.  handle_flip_flash_card
\* returns an "error: ..." string when the payload does not decode to an
\* object, and returns None, which is no string, in every other case, a
\* missing id and an unknown id included.
C3_HandlersReturn ==
  \A t \in Tasks :
     /\ Finished(t, "handle_submit_quiz") =>
           /\ task[t].ret.kind = "return"
           /\ task[t].ret.type = "str"
           /\ NotAnObject(task[t].arg) => task[t].ret.text \in DecodeErrors
     /\ Finished(t, "handle_flip_flash_card") =>
           /\ task[t].ret.kind = "return"
           /\ NotAnObject(task[t].arg) =>
                 task[t].ret.type = "str" /\ task[t].ret.text \in DecodeErrors
           /\ ~NotAnObject(task[t].arg) => task[t].ret = ReturnNone

\* C3 witness: a submission for a quiz with no option flagged correct has ended
\* in the AttributeError's message, returned as a string.
C3_Witness ==
  \E t \in Tasks :
     /\ Finished(t, "handle_submit_quiz")
     /\ task[t].ret = ReturnStr("error: 'NoneType' object has no attribute 'text'")

\* C3 as stated: a handler that met a decode failure or a lookup failure (a
\* missing id, an unknown id, no correct option) ends in a returned string.
C3_Original ==
  \A t \in Tasks :
     /\ (Finished(t, "handle_submit_quiz") /\ task[t].ret # ReturnStr("success")) =>
           task[t].ret.kind = "return" /\ task[t].ret.type = "str"
     /\ (Finished(t, "handle_flip_flash_card") /\ task[t].card = 0) =>
           task[t].ret.kind = "return" /\ task[t].ret.type = "str"

\* The "quiz created" calls issued so far.
QuizCalls == { n \in DOMAIN sent : sent[n].method = "client.quiz" }

\* A record without its id.
WithoutId(r) == [f \in DOMAIN r \ {"id"} |-> r[f]]

\* What a "quiz created" payload shows besides the generated ids.
Shown(payload) ==
  [k \in DOMAIN payload.questions |->
     [text |-> payload.questions[k].text,
      answers |-> [j \in DOMAIN payload.questions[k].answers |->
                     WithoutId(payload.questions[k].answers[j])]]]

\* The texts of a stored quiz: its questions and options without ids and
\* correct flags.
QuizTexts(quiz) ==
  [k \in DOMAIN quiz.questions |->
     [text |-> quiz.questions[k].text,
      answers |-> [j \in DOMAIN quiz.questions[k].answers |->
                     [text |-> quiz.questions[k].answers[j].text]]]]

\* The stored quiz a "quiz created" payload announces.
Announced(payload) == quizzes[CHOOSE q \in DOMAIN quizzes : quizzes[q].id = payload.id]

\* C5: no answer option of a "quiz created" payload carries a correct flag, and
\* the payloads of two create_quiz calls whose questions differ only in which
\* options are flagged correct are the same up to the generated ids.
C5_QuizPayloadHidesCorrect ==
  /\ \A n \in QuizCalls : \A k \in DOMAIN sent[n].payload.questions :
        \A j \in DOMAIN sent[n].payload.questions[k].answers :
           DOMAIN sent[n].payload.questions[k].answers[j] = {"id", "text"}
  /\ \A n1, n2 \in QuizCalls :
        QuizTexts(Announced(sent[n1].payload)) = QuizTexts(Announced(sent[n2].payload))
           => Shown(sent[n1].payload) = Shown(sent[n2].payload)

\* C5 witness: two quizzes with the same texts and different correct flags
\* have both been sent.
C5_Witness ==
  \E n1, n2 \in QuizCalls :
     /\ Announced(sent[n1].payload).questions # << >>
     /\ QuizTexts(Announced(sent[n1].payload)) = QuizTexts(Announced(sent[n2].payload))
     /\ \E k \in DOMAIN Announced(sent[n1].payload).questions :
           \E j \in DOMAIN Announced(sent[n1].payload).questions[k].answers :
              Announced(sent[n1].payload).questions[k].answers[j].is_correct
                 # Announced(sent[n2].payload).questions[k].answers[j].is_correct

\* C6: the ids add_flash_card has returned, to the create_flash_card tool and
\* to quiz submissions alike, are pairwise distinct, and get_flash_card with
\* the id of a card resolves to that card.
C6_DistinctCardIds ==
  \A i \in DOMAIN flash_cards :
     /\ \A j \in DOMAIN flash_cards : i # j => flash_cards[i].id # flash_cards[j].id
     /\ get_flash_card(flash_cards, flash_cards[i].id) = i

\* C6 witness: the store holds a card made by the tool and a card made by a
\* quiz submission.
C6_Witness ==
  /\ \E i \in DOMAIN flash_cards : flash_cards[i].question = "What is kerning?"
  /\ \E i \in DOMAIN flash_cards : flash_cards[i].question = "Q2"

\* C10: a create_flash_card call made with no room, or with no remote
\* participant connected, issues no outbound call and returns (it does not
\* raise) a status string that reports the creation, and the card it made is
\* in the store.
C10_CreateWithoutPeer ==
  [][ \A in \in CardInputs :
        (create_flash_card("tool", in) /\ (~ctxSet \/ participants = << >>)) =>
           /\ sent' = sent
           /\ task'["tool"].pc = "idle"
           /\ task'["tool"].ret \in
                { ReturnStr("Created a flash card, but couldn't access the room to send it."),
                  ReturnStr("Created a flash card, but no participants found to send it to.") }
           /\ Len(flash_cards') = Len(flash_cards) + 1
           /\ flash_cards'[Len(flash_cards')].question = in.question
           /\ flash_cards'[Len(flash_cards')].answer = in.answer ]_vars

\* C10 witness: with a room and no remote participant, the tool has returned
\* its status string and the card is stored.
C10_Witness ==
  /\ ctxSet
  /\ participants = << >>
  /\ Finished("tool", "create_flash_card")
  /\ task["tool"].ret = ReturnStr("Created a flash card, but no participants found to send it to.")
  /\ sent = << >>
  /\ \E i \in DOMAIN flash_cards : flash_cards[i].question = task["tool"].arg.question

\* The last direct call was check_quiz_answers.
Graded == call.method = "check_quiz_answers"

\* The positions of the stored quizzes with id x.
StoredUnder(x) == { q \in DOMAIN quizzes : quizzes[q].id = x }

\* C4: for a stored quiz and any answers mapping, check_quiz_answers returns one
\* tuple per question, in the stored question order, and a tuple's is_correct
\* is true exactly when some option of its question has the id the mapping
\* gives for the question and is flagged correct; otherwise it is None or False
\* (an omitted or non-matching id, an empty mapping, no flagged option), never
\* an error.
C4_GradingResult ==
  (Graded /\ StoredUnder(call.args.quiz_id) # {}) =>
     LET quiz == quizzes[CHOOSE q \in StoredUnder(call.args.quiz_id) : TRUE]
     IN  /\ Len(call.ret) = Len(quiz.questions)
         /\ \A k \in DOMAIN call.ret :
               /\ call.ret[k].question = k
               /\ call.ret[k].is_correct \in { None, << FALSE >>, << TRUE >> }
               /\ call.ret[k].is_correct = << TRUE >>
                     <=> AnsweredCorrectly(quiz, k, call.args.user_answers)

\* C4 witness: the first of two questions was graded correct and the second
\* incorrect.
C4_Witness ==
  /\ Graded
  /\ Len(call.ret) = 2
  /\ call.ret[1].is_correct = << TRUE >>
  /\ call.ret[2].is_correct = << FALSE >>

\* The entries of flipLog for card id, in call order.
FlipsOf(id) == SelectSeq(flipLog, LAMBDA e : e.id = id)

\* The card's is_flipped before the n-th flip of it.
FlippedBefore(s, n) == IF n = 1 THEN FALSE ELSE s[n - 1].is_flipped

\* C7 (amended): of two flip_flash_card calls in succession on the same
\* existing id, the second restores the card's is_flipped to what it was before
\* the first; on a card that is not flipped (as every card is when it is
\* created) the first returns the card with is_flipped true and the second with
\* is_flipped false.
C7_FlipTwice ==
  \A id \in StoredCardIds :
     LET s == FlipsOf(id)
     IN  \A n \in 1..Len(s) :
            n < Len(s) =>
               /\ s[n + 1].is_flipped = FlippedBefore(s, n)
               /\ ~FlippedBefore(s, n) => (s[n].is_flipped /\ ~s[n + 1].is_flipped)

\* C7 witness: a card has been flipped three times, so that a pair of
\* successive flips started on the unflipped card and another on the flipped
\* one.
C7_Witness == \E id \in StoredCardIds : Len(FlipsOf(id)) >= 3

\* C7 as stated: any two flip_flash_card calls in succession on the same
\* existing id return the card with is_flipped true and then false.
C7_Original ==
  \A id \in StoredCardIds :
     LET s == FlipsOf(id)
     IN  \A n \in 1..Len(s) :
            n < Len(s) => (s[n].is_flipped /\ ~s[n + 1].is_flipped)

\* C8: flip_flash_card with an id of no stored card returns None and changes
\* neither the flash cards (their number, ids, texts, is_flipped) nor the
\* quizzes.
C8_FlipUnknown ==
  [][ \A id \in UnknownIds :
        (StoreFlipFlashCard(id) /\ id \notin StoredCardIds) =>
           /\ call'.ret = 0
           /\ flash_cards' = flash_cards
           /\ quizzes' = quizzes ]_vars

\* C8 witness: an unknown id was flipped on a store that holds a quiz and a
\* flipped card.
C8_Witness ==
  /\ call.method = "flip_flash_card"
  /\ call.args \notin StoredCardIds
  /\ call.ret = 0
  /\ quizzes # << >>
  /\ \E i \in DOMAIN flash_cards : flash_cards[i].is_flipped

\* C9: check_quiz_answers with id X returns << >> when no stored quiz has id X,
\* whatever the mapping, and otherwise grades the quiz stored under X: one
\* tuple per question of that quiz, whose selected option is the option of that
\* question with the id the mapping gives (None when there is none) and whose
\* correct option is an option of that question flagged correct (None when
\* there is none).
C9_GradesStoredQuiz ==
  Graded =>
     IF StoredUnder(call.args.quiz_id) = {}
     THEN call.ret = << >>
     ELSE LET quiz == quizzes[CHOOSE q \in StoredUnder(call.args.quiz_id) : TRUE]
          IN  /\ Len(call.ret) = Len(quiz.questions)
              /\ \A k \in DOMAIN call.ret :
                    LET r == call.ret[k]
                        answers == quiz.questions[k].answers
                        chosen  == dict_get(call.args.user_answers, quiz.questions[k].id)
                    IN  /\ r.selected_answer \in {0} \cup DOMAIN answers
                        /\ r.selected_answer # 0 => << answers[r.selected_answer].id >> = chosen
                        /\ r.selected_answer = 0 =>
                              \A j \in DOMAIN answers : << answers[j].id >> # chosen
                        /\ r.correct_answer \in {0} \cup DOMAIN answers
                        /\ r.correct_answer # 0 => answers[r.correct_answer].is_correct
                        /\ r.correct_answer = 0 => \A j \in DOMAIN answers : ~answers[j].is_correct

\* C9 witness: with two quizzes stored, the second one was graded.
C9_Witness ==
  /\ Graded
  /\ Len(quizzes) = 2
  /\ call.args.quiz_id = quizzes[2].id
  /\ call.ret # << >>

\* The texts a tool call was given.
ArgTexts(loc) ==
  IF loc.op = "create_flash_card" THEN { loc.arg.question, loc.arg.answer }
  ELSE IF loc.op = "create_quiz"
  THEN UNION { { loc.arg[k].text } \cup { loc.arg[k].answers[j].text : j \in DOMAIN loc.arg[k].answers } :
               k \in DOMAIN loc.arg }
  ELSE { }

\* C11: a notifying tool (create_flash_card, flip_flash_card, create_quiz) that
\* has a destination and whose payload json.dumps cannot serialize does not
\* raise: it ends by returning a status string.
C11_SerializationFailure ==
  \A t \in Tasks :
     (/\ task[t].pc = "idle"
      /\ task[t].op \in { "create_flash_card", "flip_flash_card", "create_quiz" }
      /\ tool_destination(ctxSet, participants).status = "ok"
      /\ Bytes \in ArgTexts(task[t])) =>
        task[t].ret.kind = "return" /\ task[t].ret.type = "str"

\* The flash-card "show" calls issued so far.
ShowCalls ==
  { n \in DOMAIN sent : sent[n].method = "client.flashcard" /\ sent[n].payload.action = "show" }

\* C12: every flash-card "show" notification sent, by the create_flash_card
\* tool or by a quiz submission, carries the id of a stored card and as index
\* the 0-based position of that card in flash_cards, whatever ran while a task
\* was suspended in an outbound call.
C12_ShowIndex ==
  \A n \in ShowCalls :
     \E i \in DOMAIN flash_cards :
        /\ flash_cards[i].id = sent[n].payload.id
        /\ sent[n].payload.index = i - 1

\* C12 witness: a submission announced a card, the tool created and announced
\* one while the submission was suspended, and the submission then announced
\* its second card.
C12_Witness ==
  \E n1, n2, n3 \in ShowCalls :
     /\ n1 < n2 /\ n2 < n3
     /\ sent[n1].payload.question = "Q1"
     /\ sent[n2].payload.question = "What is kerning?"
     /\ sent[n3].payload.question = "Q2"
     /\ sent[n3].payload.index = 2

\* The payload decodes to an object.
IsObject(payload) == payload.wellformed /\ payload.value.type = "dict"

\* The payload decodes to an object that has no id.
HasNoId(payload) == IsObject(payload) /\ "id" \notin DOMAIN payload.value.items

\* The payload decodes to an object with an id for which grading yields the
\* empty sequence: no quiz is stored under the id, or the quiz stored under it
\* has no questions.
GradesEmpty(payload) ==
  /\ IsObject(payload)
  /\ "id" \in DOMAIN payload.value.items
  /\ \A q \in StoredUnder(payload.value.items.id) : quizzes[q].questions = << >>

\* The step is one of a handle_submit_quiz invocation: it starts it, or
\* resumes it after an awaited call.  (A finished frame is gone after the next
\* step, and a suspended one is left as it is by the steps of others.)
SubmitStep ==
  /\ task'["rpc"].op = "handle_submit_quiz"
  /\ task'["rpc"].pc = "idle" \/ task'["rpc"] # task["rpc"]

\* C13: handle_submit_quiz returns "error: No quiz ID found in payload" for a
\* decoded payload without id and "error: Quiz not found" when grading yields
\* the empty sequence, and in both cases adds no flash card, issues no outbound
\* call and hands nothing to session.say.
C13_SubmitEarlyErrors ==
  [][ (SubmitStep /\ (HasNoId(task'["rpc"].arg) \/ GradesEmpty(task'["rpc"].arg))) =>
         /\ task'["rpc"].pc = "idle"
         /\ HasNoId(task'["rpc"].arg) =>
               task'["rpc"].ret = ReturnStr("error: No quiz ID found in payload")
         /\ GradesEmpty(task'["rpc"].arg) =>
               task'["rpc"].ret = ReturnStr("error: Quiz not found")
         /\ flash_cards' = flash_cards
         /\ sent' = sent
         /\ said' = said ]_vars

\* C13 witness: with a card and a quiz stored and a peer connected, a
\* submission without id has been answered with the error.
C13_Witness ==
  /\ Finished("rpc", "handle_submit_quiz")
  /\ HasNoId(task["rpc"].arg)
  /\ task["rpc"].ret = ReturnStr("error: No quiz ID found in payload")
  /\ flash_cards # << >>
  /\ quizzes # << >>
  /\ participants # << >>

\* The payload decodes to an object whose id names a stored quiz with at least
\* one question.
NamesQuizWithQuestions(payload) ==
  /\ IsObject(payload)
  /\ "id" \in DOMAIN payload.value.items
  /\ \E q \in StoredUnder(payload.value.items.id) : quizzes[q].questions # << >>

\* The stored quiz a submission payload names.
Submitted(payload) == quizzes[CHOOSE q \in StoredUnder(payload.value.items.id) : TRUE]

\* The payload's answers value is an object, or is left out.
AnswersIsObject(payload) ==
  "answers" \in DOMAIN payload.value.items => payload.value.items.answers.type = "dict"

\* The summary session.say is given for a quiz and an answers mapping.
Summary(quiz, m, calls) ==
  [correct_count |-> Cardinality({ k \in DOMAIN quiz.questions : AnsweredCorrectly(quiz, k, m) }),
   total_count   |-> Len(quiz.questions),
   calls         |-> calls]

\* The step ends a handle_submit_quiz invocation.
SubmitEnds == task'["rpc"].op = "handle_submit_quiz" /\ task'["rpc"].pc = "idle"

\* C14 (amended): a submission that names a stored quiz with at least one
\* question ends with "success" when its answers value is an object, every
\* question graded incorrect has an option flagged correct and none of its
\* notification calls raises; the step on which it returns "success" hands one
\* summary to session.say, with the number of questions answered correctly and
\* the number of questions of the quiz, and issues no outbound call, so every
\* flash-card notification of the submission was issued before.  No other step
\* hands anything to session.say: a submission that ends with an "error: ..."
\* result has given no summary.
C14_SummaryThenSuccess ==
  [][ LET loc == task'["rpc"]
      IN  /\ said' # said => (SubmitEnds /\ loc.ret = ReturnStr("success"))
          /\ (SubmitEnds /\ loc.ret = ReturnStr("success")) =>
                /\ NamesQuizWithQuestions(loc.arg)
                /\ said' = Append(said, Summary(Submitted(loc.arg), SubmittedAnswers(loc.arg),
                                                Len(sent)))
                /\ sent' = sent
          /\ (/\ SubmitEnds
              /\ NamesQuizWithQuestions(loc.arg)
              /\ AnswersIsObject(loc.arg)
              /\ HasCorrectOptions(Submitted(loc.arg))
              /\ ~RpcRaise("rpc")) => loc.ret = ReturnStr("success") ]_vars

\* C14 witness: a submission with one of two questions right has announced its
\* flash card, given the summary 1 out of 2 and returned "success".
C14_Witness ==
  /\ Finished("rpc", "handle_submit_quiz")
  /\ task["rpc"].ret = ReturnStr("success")
  /\ said # << >>
  /\ said[Len(said)].correct_count = 1
  /\ said[Len(said)].total_count = 2
  /\ \E n \in ShowCalls : sent[n].payload.id \in Range(task["rpc"].added)

\* C14 as stated, and only for answers that are an object and quizzes whose
\* every question has a correct option: every submission that names a stored
\* quiz with at least one question ends with a summary handed to session.say
\* and the result "success".
C14_Original ==
  (/\ Finished("rpc", "handle_submit_quiz")
   /\ NamesQuizWithQuestions(task["rpc"].arg)
   /\ AnswersIsObject(task["rpc"].arg)
   /\ HasCorrectOptions(Submitted(task["rpc"].arg))) =>
     /\ task["rpc"].ret = ReturnStr("success")
     /\ said # << >>
     /\ said[Len(said)].total_count = Len(Submitted(task["rpc"].arg).questions)

\* C15: a check_quiz_answers call, for a known or an unknown quiz id and any
\* answers mapping, leaves every stored quiz (its id, questions, options and
\* correct flags) and every stored flash card as it was.
C15_GradingReadOnly ==
  [][ (nOps' # nOps /\ call'.method = "check_quiz_answers") =>
         /\ quizzes' = quizzes
         /\ flash_cards' = flash_cards ]_vars

\* C15 witness: a stored quiz was graded, with one selected option flagged
\* correct, while the store holds a flash card.
C15_Witness ==
  /\ Graded
  /\ flash_cards # << >>
  /\ StoredUnder(call.args.quiz_id) # {}
  /\ \E k \in DOMAIN call.ret : call.ret[k].is_correct = << TRUE >>

\* The ids add_quiz has generated: those of the stored quizzes, their
\* questions and their answer options.
QuizUuids ==
  UNION { { quizzes[q].id }
            \cup { quizzes[q].questions[k].id : k \in DOMAIN quizzes[q].questions }
            \cup UNION { { quizzes[q].questions[k].answers[j].id :
                             j \in DOMAIN quizzes[q].questions[k].answers } :
                         k \in DOMAIN quizzes[q].questions } :
          q \in DOMAIN quizzes }

\* The add_flash_card calls performed so far: each calls uuid4 once, and the
\* only other uuid4 calls are add_quiz's.
AddsPerformed == (nextId - 1) - Cardinality(QuizUuids)

\* C16: in every state the tools and the inbound handlers can reach, however
\* they interleave at their awaited outbound calls, the number of stored flash
\* cards is the number of add_flash_card calls performed, and a card is flipped
\* exactly when an odd number of flips has been applied to its id.
C16_NoLostUpdate ==
  /\ Len(flash_cards) = AddsPerformed
  /\ \A i \in DOMAIN flash_cards :
        flash_cards[i].is_flipped <=> (Len(FlipsOf(flash_cards[i].id)) % 2 = 1)

\* C16 witness: while a submission was suspended in the notification of its
\* first card, that card was flipped; the submission then added its second
\* card.
C16_Witness ==
  /\ Runs("rpc", "handle_submit_quiz")
  /\ Len(flash_cards) = 2
  /\ flash_cards[1].question = "Q1"
  /\ flash_cards[1].is_flipped
  /\ flash_cards[2].question = "Q2"

\* The step creates a flash card or a quiz, or is a flip by the tool: the
\* state changes the session notifies.
NotifiedChange ==
  \/ Len(flash_cards') > Len(flash_cards)
  \/ Len(quizzes') > Len(quizzes)
  \/ task'["tool"].op = "flip_flash_card" /\ flash_cards' # flash_cards

\* Call c announces a state change of the step.
Announces(c) ==
  IF c.method = "client.quiz"
  THEN /\ Len(quizzes') = Len(quizzes) + 1
       /\ c.payload.id = quizzes'[Len(quizzes')].id
  ELSE IF c.payload.action = "show"
  THEN /\ Len(flash_cards') = Len(flash_cards) + 1
       /\ c.payload.id = flash_cards'[Len(flash_cards')].id
  ELSE \E i \in DOMAIN flash_cards :
          /\ flash_cards[i].id = c.payload.id
          /\ flash_cards'[i].is_flipped # flash_cards[i].is_flipped

\* C17: a step issues at most one outbound call; a call announces a state
\* change of that step (a card or a quiz created, a card flipped by the tool)
\* that no earlier call announced, and is addressed to one remote participant,
\* one connected when the step picked it; a notified state change made while a
\* participant is connected issues its call, and with no participant connected
\* no call is issued.
C17_OneCallOnePeer ==
  [][ /\ sent' = sent \/ (Len(sent') = Len(sent) + 1 /\ SubSeq(sent', 1, Len(sent)) = sent)
      /\ sent' # sent =>
            LET c == sent'[Len(sent')]
            IN  /\ c.destination_identity \in Range(participants)
                /\ Announces(c)
                /\ c.payload.action = "show" =>
                      \A n \in DOMAIN sent :
                         ~(sent[n].method = c.method /\ sent[n].payload.action = "show"
                             /\ sent[n].payload.id = c.payload.id)
      /\ participants = << >> => sent' = sent
      /\ (NotifiedChange /\ participants # << >>) => sent' # sent ]_vars

\* C17 witness: with two participants connected, "observer" before "client",
\* the flash card of a suspended submission was sent to "observer" alone.
C17_Witness ==
  /\ participants = << "observer", "client" >>
  /\ Runs("rpc", "handle_submit_quiz")
  /\ task["rpc"].pc = "rpc"
  /\ sent # << >>
  /\ sent[Len(sent)].destination_identity = "observer"
  /\ sent[Len(sent)].payload.id \in Range(task["rpc"].added)

\* The payload decodes to an object whose id is the id of a stored flash card.
NamesStoredCard(payload) ==
  /\ IsObject(payload)
  /\ "id" \in DOMAIN payload.value.items
  /\ payload.value.items.id \in StoredCardIds

\* C18: handle_flip_flash_card leaves the quizzes, the outbound calls and the
\* speech layer alone; when the payload decodes to an object whose id is the id
\* of a stored flash card it toggles is_flipped of that card, once, and changes
\* no other card; when the payload does not decode to an object it returns an
\* "error: <message>" string, and then, as for a missing id and for an unknown
\* id, every flash card is left as it was.
C18_FlipHandlerFrame ==
  [][ \A payload \in FlipPayloads :
        handle_flip_flash_card("rpc", payload) =>
           /\ quizzes' = quizzes
           /\ sent' = sent
           /\ said' = said
           /\ Len(flash_cards') = Len(flash_cards)
           /\ NamesStoredCard(payload) =>
                 \A i \in DOMAIN flash_cards :
                    IF flash_cards[i].id = payload.value.items.id
                    THEN flash_cards'[i] =
                           [flash_cards[i] EXCEPT !.is_flipped = ~flash_cards[i].is_flipped]
                    ELSE flash_cards'[i] = flash_cards[i]
           /\ ~NamesStoredCard(payload) => flash_cards' = flash_cards
           /\ NotAnObject(payload) =>
                 /\ task'["rpc"].ret.type = "str"
                 /\ task'["rpc"].ret.text \in DecodeErrors ]_vars

\* C18 witness: the handler has flipped the second of two stored cards, and
\* only that one.
C18_Witness ==
  /\ Finished("rpc", "handle_flip_flash_card")
  /\ task["rpc"].card = 2
  /\ Len(flash_cards) = 2
  /\ ~flash_cards[1].is_flipped
  /\ flash_cards[2].is_flipped

\* C19: handle_submit_quiz answers "error: Quiz not found" only to a
\* submission whose id names no stored quiz; a stored quiz with zero questions
\* is not reported as not found.
C19_NotFoundOnlyForUnknown ==
  (/\ Finished("rpc", "handle_submit_quiz")
   /\ task["rpc"].ret = ReturnStr("error: Quiz not found")) =>
      StoredUnder(task["rpc"].arg.value.items.id) = {}

\* The "flip" calls issued so far for card id.
FlipCalls(id) ==
  { n \in DOMAIN sent : /\ sent[n].method = "client.flashcard"
                        /\ sent[n].payload.action = "flip"
                        /\ sent[n].payload.id = id }

\* Every "flip" call names a stored card, and no card has more "flip" calls
\* than toggles.
FlipCallsWithinToggles ==
  /\ \A n \in DOMAIN sent :
        (sent[n].method = "client.flashcard" /\ sent[n].payload.action = "flip") =>
           sent[n].payload.id \in StoredCardIds
  /\ \A id \in StoredCardIds : Cardinality(FlipCalls(id)) <= Len(FlipsOf(id))

\* C20: the flip_flash_card tool called with an id of no stored card toggles
\* nothing, sends nothing and returns its not-found string; a step that sends
\* a "flip" notification has toggled the card the notification names; and in
\* every state the "flip" notifications sent for an id are at most the toggles
\* applied to that card.
C20_FlipNotifiedAfterToggle ==
  [][ /\ \A id \in UnknownIds :
            (flip_flash_card_tool("tool", id) /\ id \notin StoredCardIds) =>
               /\ flash_cards' = flash_cards
               /\ sent' = sent
               /\ task'["tool"].ret = ReturnStr("Flash card with ID {card_id} not found.")
      /\ (sent' # sent /\ sent'[Len(sent')].payload.action = "flip") =>
            \E i \in DOMAIN flash_cards :
               /\ flash_cards[i].id = sent'[Len(sent')].payload.id
               /\ flash_cards'[i].is_flipped = ~flash_cards[i].is_flipped
      /\ FlipCallsWithinToggles' ]_vars

\* C20 witness: the second of two cards was flipped by the tool, its "flip"
\* notification was sent and answered, and the tool has returned.
C20_Witness ==
  /\ Finished("tool", "flip_flash_card")
  /\ task["tool"].ret = ReturnStr("I've flipped the flash card to show the answer")
  /\ Len(flash_cards) = 2
  /\ FlipCalls(flash_cards[2].id) # {}
  /\ FlipCalls(flash_cards[1].id) = {}

\* The step ends a handle_submit_quiz invocation with an "error: ..." result
\* after the handler has called check_quiz_answers for a stored quiz with at
\* least one question.
SubmitFails ==
  /\ SubmitEnds
  /\ NamesQuizWithQuestions(task'["rpc"].arg)
  /\ task'["rpc"].ret # ReturnStr("success")

\* The result of a submission whose failing question has no option flagged
\* correct: `correct_answer.text` with correct_answer None.
NoCorrectOption == ReturnStr("error: 'NoneType' object has no attribute 'text'")

\* C21: a quiz submission is not atomic.  On the step on which
\* handle_submit_quiz ends with an "error: ..." result after grading has
\* started, nothing is handed to session.say and no stored card is removed or
\* changed.  When grading itself failed (the answers value is no object) the
\* submission has appended nothing.  Otherwise it has appended one card for
\* each of its first n incorrect questions, all of them still in the store
\* with the question's text; it failed at its n-th incorrect question when an
\* outbound call raised (n >= 1, the card of the failing question included)
\* and at its (n+1)-th, which has no option flagged correct, otherwise; the
\* incorrect questions after the failing one have no card, and the failing
\* step appends no card but those of the invocation.
C21_SubmissionNotAtomic ==
  [][ SubmitFails =>
        LET loc == task'["rpc"]
        IN  /\ said' = said
            /\ Len(flash_cards') >= Len(flash_cards)
            /\ \A c \in DOMAIN flash_cards : flash_cards'[c] = flash_cards[c]
            /\ \A c \in DOMAIN flash_cards' :
                  c > Len(flash_cards) => flash_cards'[c].id \in Range(loc.added)
            /\ ~AnswersIsObject(loc.arg) => (loc.added = << >> /\ flash_cards' = flash_cards)
            /\ AnswersIsObject(loc.arg) =>
                  LET quiz  == Submitted(loc.arg)
                      wrong == IncorrectQuestions(quiz, SubmittedAnswers(loc.arg))
                      n     == Len(loc.added)
                  IN  /\ n <= Len(wrong)
                      /\ \A k \in 1..n :
                            \E c \in DOMAIN flash_cards' :
                               /\ flash_cards'[c].id = loc.added[k]
                               /\ flash_cards'[c].question = quiz.questions[wrong[k]].text
                      /\ Cardinality({ c \in DOMAIN flash_cards' :
                                         flash_cards'[c].id \in Range(loc.added) }) = n
                      /\ IF loc.ret = NoCorrectOption
                         THEN /\ n < Len(wrong)
                              /\ \A j \in DOMAIN quiz.questions[wrong[n + 1]].answers :
                                    ~quiz.questions[wrong[n + 1]].answers[j].is_correct
                         ELSE /\ n >= 1
                              /\ flash_cards' = flash_cards ]_vars

\* C21 witness: a submission with both questions wrong has ended with
\* "error: RpcError" on its first notification: the card of the first question
\* is in the store, there is none for the second, and nothing was said.
C21_Witness ==
  /\ Finished("rpc", "handle_submit_quiz")
  /\ task["rpc"].ret = ReturnStr("error: RpcError")
  /\ Len(IncorrectQuestions(quizzes[task["rpc"].quiz], SubmittedAnswers(task["rpc"].arg))) = 2
  /\ Len(task["rpc"].added) = 1
  /\ \E c \in DOMAIN flash_cards :
        flash_cards[c].id = task["rpc"].added[1] /\ flash_cards[c].question = "Q1"
  /\ \A c \in DOMAIN flash_cards : flash_cards[c].question # "Q2"
  /\ said = << >>

=============================================================================
